---------------------------- MODULE Spec2Model ----------------------------
(***************************************************************************)
(* A model of the Avellaneda market maker of src/mm.py and of the gateway  *)
(* it drives, src/kalshi_api.py.                                           *)
(*                                                                         *)
(* Numbers.  Python floats are modelled as fixed-point integers with       *)
(* Scale units per 1.0 (one unit = 0.0001, one cent = 100 units).  A       *)
(* Python int keeps its own value; Num(n) is the float value of the int n. *)
(* The result of int(x) is a plain integer again.  Float rounding below     *)
(* one unit is not modelled; comparisons are exact on the fixed-point      *)
(* values.                                                                 *)
(*                                                                         *)
(* The venue is the environment: every gateway request may fail, and the   *)
(* venue opens an order for whatever payload it accepts.  The clock is     *)
(* followed where run() reads it (lines 41 and 42).  The expiration_ts of  *)
(* a payload is left out: nothing in the reconciler reads it back.         *)
(***************************************************************************)
EXTENDS Integers, Sequences, FiniteSets, TLC

VARIABLES
    trade_side,             \* self.trade_side
    max_position,           \* self.max_position
    position_limit_buffer,  \* self.position_limit_buffer (fixed point)
    pc,                     \* position of run() / of the function under test
    clock,                  \* time.time() - start_time, in whole seconds
    fault,                  \* the exception that left run(), "none" while running
    current_time,           \* run(): current_time (t)
    mid_price,              \* run(): mid_price (fixed point)
    inventory,              \* run(): inventory, when get_position returned a number
    inventory_is_list,      \* run(): TRUE when get_position returned its [] sentinel
    bid_price, ask_price,   \* run(): the quote (fixed point)
    buy_size, sell_size,    \* run(): the sizes
    buy_orders, sell_orders,\* manage_orders(): the two per-action lists
    venue,                  \* the venue's open orders of this account, in listing order
    next_id,                \* the venue's next order id
    calls                   \* the gateway calls and computations of the current tick

vars == <<trade_side, max_position, position_limit_buffer, pc, clock, fault,
          current_time, mid_price, inventory, inventory_is_list, bid_price,
          ask_price, buy_size, sell_size, buy_orders, sell_orders, venue,
          next_id, calls>>

----------------------------------------------------------------------------
(* Arithmetic *)

CentsPerUnit == 100

Scale == CentsPerUnit * 100

Cent == Scale \div CentsPerUnit

Num(n) == n * Scale

Abs(x) == IF x < 0 THEN -x ELSE x

Max(a, b) == IF a >= b THEN a ELSE b

Min(a, b) == IF a <= b THEN a ELSE b

\* a / b rounded toward zero, as Python's int() truncates
TruncDiv(a, b) == IF a >= 0 THEN a \div b ELSE -((-a) \div b)

\* the fixed-point product of two fixed-point numbers
Mul(a, b) == TruncDiv(a * b, Scale)

\* math.exp(-x) for a fixed-point x >= 0: the Taylor series, ExpTerms terms
ExpTerms == 12

RECURSIVE ExpNegSum(_, _, _, _)
ExpNegSum(x, n, term, acc) ==
    IF n > ExpTerms \/ term = 0 THEN acc
    ELSE LET t == TruncDiv(term * x, n * Scale)
         IN ExpNegSum(x, n + 1, t, IF n % 2 = 1 THEN acc - t ELSE acc + t)

ExpNeg(x) == Max(0, ExpNegSum(x, 1, Scale, Scale))

\* math.log(1 + y) for a fixed-point 0 <= y < 1: y - y^2/2 + y^3/3 - y^4/4
Log1p(y) ==
    LET y2 == Mul(y, y)
        y3 == Mul(y2, y)
        y4 == Mul(y3, y)
    IN y - y2 \div 2 + y3 \div 3 - y4 \div 4

----------------------------------------------------------------------------
(* AvellanedaMarketMaker: the model parameters of __init__ *)

base_gamma == Scale \div 10                 \* gamma = 0.1

k == (3 * Scale) \div 2                      \* k = 1.5

sigma_sq == (4 * Scale) \div 10000           \* sigma = 0.02, sigma**2 = 0.0004

min_spread == Scale \div 100                 \* min_spread = 0.01

default_position_limit_buffer == Scale \div 10   \* position_limit_buffer = 0.1

inventory_skew_factor_inv == 100            \* inventory_skew_factor = 0.01 = 1/100

T == 2                                      \* the horizon, in seconds

----------------------------------------------------------------------------
(* QuoteEngine: the pure functions of AvellanedaMarketMaker *)

\* calculate_dynamic_gamma(inventory)
calculate_dynamic_gamma(maxpos, inv) ==
    LET position_ratio == TruncDiv(Num(Abs(inv)), maxpos)
    IN Mul(base_gamma, ExpNeg(position_ratio))

\* calculate_reservation_price(mid_price, inventory, t)
calculate_reservation_price(maxpos, mid, inv, t) ==
    LET dynamic_gamma == calculate_dynamic_gamma(maxpos, inv)
        inventory_skew == TruncDiv(inv * mid, inventory_skew_factor_inv)
    IN mid + inventory_skew
         - TruncDiv(inv * dynamic_gamma * sigma_sq * (T - t), Scale * T)

\* calculate_optimal_spread with line 93 returning base_spread *
\* spread_adjustment * 0.01 itself, without max(..., self.min_spread)
optimal_spread_without_floor(maxpos, t, inv) ==
    LET dynamic_gamma == calculate_dynamic_gamma(maxpos, inv)
        base_spread ==
            TruncDiv(dynamic_gamma * sigma_sq * (T - t), Scale * T)
            + TruncDiv(2 * Scale * Log1p(TruncDiv(dynamic_gamma * Scale, k)),
                       dynamic_gamma)
        spread_adjustment ==
            Scale - TruncDiv(Num(inv * inv), maxpos * maxpos)
    IN TruncDiv(Mul(base_spread, spread_adjustment), 100)

\* calculate_optimal_spread(t, inventory)
calculate_optimal_spread(maxpos, t, inv) ==
    LET dynamic_gamma == calculate_dynamic_gamma(maxpos, inv)
        base_spread ==
            TruncDiv(dynamic_gamma * sigma_sq * (T - t), Scale * T)
            + TruncDiv(2 * Scale * Log1p(TruncDiv(dynamic_gamma * Scale, k)),
                       dynamic_gamma)
        \* 1 - position_ratio ** 2, position_ratio = abs(inventory) / max_position
        spread_adjustment ==
            Scale - TruncDiv(Num(inv * inv), maxpos * maxpos)
    IN Max(TruncDiv(Mul(base_spread, spread_adjustment), 100), min_spread)

\* half_spreads with the branches of lines 70-75 exchanged
half_spreads_skewed_the_other_way(maxpos, inv, t) ==
    LET base_spread == calculate_optimal_spread(maxpos, t, inv)
        spread_adjustment == TruncDiv(base_spread * Abs(inv) * 3, maxpos)
    IN IF inv > 0
       THEN <<Max(base_spread \div 2 - spread_adjustment, min_spread \div 2),
              base_spread \div 2 + spread_adjustment>>
       ELSE <<base_spread \div 2 + spread_adjustment,
              Max(base_spread \div 2 - spread_adjustment, min_spread \div 2)>>

\* the two half-spreads of calculate_asymmetric_quotes, <<bid_spread, ask_spread>>
half_spreads(maxpos, inv, t) ==
    LET base_spread == calculate_optimal_spread(maxpos, t, inv)
        \* base_spread * abs(inventory / max_position) * 3
        spread_adjustment == TruncDiv(base_spread * Abs(inv) * 3, maxpos)
    IN IF inv > 0
       THEN <<base_spread \div 2 + spread_adjustment,
              Max(base_spread \div 2 - spread_adjustment, min_spread \div 2)>>
       ELSE <<Max(base_spread \div 2 - spread_adjustment, min_spread \div 2),
              base_spread \div 2 + spread_adjustment>>

\* calculate_asymmetric_quotes with lines 77-78 clamping to [0, 1] only, not to mid
quotes_not_clamped_to_mid(maxpos, mid, inv, t) ==
    LET reservation_price == calculate_reservation_price(maxpos, mid, inv, t)
        hs == half_spreads(maxpos, inv, t)
    IN <<Max(0, Min(Scale, reservation_price - hs[1])),
         Min(Scale, Max(0, reservation_price + hs[2]))>>

\* calculate_asymmetric_quotes(mid_price, inventory, t): <<bid_price, ask_price>>
calculate_asymmetric_quotes(maxpos, mid, inv, t) ==
    LET reservation_price == calculate_reservation_price(maxpos, mid, inv, t)
        hs == half_spreads(maxpos, inv, t)
    IN <<Max(0, Min(mid, reservation_price - hs[1])),
         Min(Scale, Max(mid, reservation_price + hs[2]))>>

\* calculate_order_sizes with lines 104 and 108 missing their max(1, ...)
order_sizes_without_floor(maxpos, buffer, inv) ==
    LET remaining_capacity == maxpos - Abs(inv)
        buffer_size == TruncDiv(maxpos * buffer, Scale)
    IN IF inv > 0
       THEN <<Min(buffer_size, remaining_capacity), Max(1, maxpos)>>
       ELSE <<Max(1, maxpos), Min(buffer_size, remaining_capacity)>>

\* calculate_order_sizes with line 103 testing inventory >= 0
order_sizes_zero_is_long(maxpos, buffer, inv) ==
    LET remaining_capacity == maxpos - Abs(inv)
        buffer_size == TruncDiv(maxpos * buffer, Scale)
    IN IF inv >= 0
       THEN <<Max(1, Min(buffer_size, remaining_capacity)), Max(1, maxpos)>>
       ELSE <<Max(1, maxpos), Max(1, Min(buffer_size, remaining_capacity))>>

\* calculate_order_sizes with lines 104 and 108 using buffer_size alone, without
\* min(buffer_size, remaining_capacity)
order_sizes_ignoring_remaining_capacity(maxpos, buffer, inv) ==
    LET buffer_size == TruncDiv(maxpos * buffer, Scale)
    IN IF inv > 0
       THEN <<Max(1, buffer_size), Max(1, maxpos)>>
       ELSE <<Max(1, maxpos), Max(1, buffer_size)>>

\* calculate_order_sizes(inventory): <<buy_size, sell_size>>
calculate_order_sizes(maxpos, buffer, inv) ==
    LET remaining_capacity == maxpos - Abs(inv)
        buffer_size == TruncDiv(maxpos * buffer, Scale)
    IN IF inv > 0
       THEN <<Max(1, Min(buffer_size, remaining_capacity)), Max(1, maxpos)>>
       ELSE <<Max(1, maxpos), Max(1, Min(buffer_size, remaining_capacity))>>

----------------------------------------------------------------------------
(* KalshiTradingAPI: the gateway *)

market_ticker == "MKT"

\* get_price(): the dictionary of the two mid prices, from the market's quotes in
\* cents.  round(x, 2) of a half cent goes up or down with the float's last bit.
get_price(market, up) ==
    LET half(b, a) ==
            IF (b + a) % 2 = 0 THEN ((b + a) \div 2) * Cent
            ELSE IF up THEN ((b + a + 1) \div 2) * Cent
            ELSE ((b + a - 1) \div 2) * Cent
    IN [yes |-> half(market.yes_bid, market.yes_ask),
        no  |-> half(market.no_bid, market.no_ask)]

\* place_order(action, side, count, price): the payload posted to the venue
place_order(action, side, count, price) ==
    LET price_to_send == TruncDiv(price * CentsPerUnit, Scale)
    IN IF side = "yes"
       THEN [ticker |-> market_ticker, action |-> action, side |-> side,
             count |-> count, type |-> "limit", yes_price |-> price_to_send]
       ELSE [ticker |-> market_ticker, action |-> action, side |-> side,
             count |-> count, type |-> "limit", no_price |-> price_to_send]

\* the price field of a payload's own side
payload_price(payload) ==
    IF payload.side = "yes" THEN payload.yes_price ELSE payload.no_price

\* the order the venue opens for an accepted payload
venue_order(id, payload) ==
    LET p == payload_price(payload)
    IN [order_id |-> id, ticker |-> payload.ticker, side |-> payload.side,
        action |-> payload.action,
        yes_price |-> IF payload.side = "yes" THEN p ELSE CentsPerUnit - p,
        no_price |-> IF payload.side = "no" THEN p ELSE CentsPerUnit - p,
        remaining_count |-> payload.count]

\* cancel_order(order_id) when the venue accepts it: the order leaves the book
RECURSIVE without(_, _)
without(orders, ids) ==
    IF orders = <<>> THEN <<>>
    ELSE IF Head(orders).order_id \in ids THEN without(Tail(orders), ids)
    ELSE <<Head(orders)>> \o without(Tail(orders), ids)

\* get_orders(): the venue's list, or [] when the request fails
get_orders(book, ok) == IF ok THEN book ELSE <<>>

----------------------------------------------------------------------------
(* OrderReconciler: manage_orders and handle_order_side *)

\* a gateway call or a computation of the tick: what was called, by which part of
\* the tick ("run", "buy", "sell"), with which values, and whether it succeeded
Event(op, action, detail) ==
    [op |-> op, action |-> action, detail |-> detail, ok |-> TRUE]

RECURSIVE select_orders(_, _, _)
\* manage_orders: the orders of `side` and `action`, in the list's order
select_orders(orders, side, action) ==
    IF orders = <<>> THEN <<>>
    ELSE IF Head(orders).side = side /\ Head(orders).action = action
         THEN <<Head(orders)>> \o select_orders(Tail(orders), side, action)
         ELSE select_orders(Tail(orders), side, action)

\* handle_order_side: current_price of an order
order_price(order, side) ==
    IF side = "yes" THEN order.yes_price * Cent ELSE order.no_price * Cent

\* handle_order_side: the test that marks an order "keep" (keep_order is None apart)
keep_test(order, side, desired_price, desired_size) ==
    /\ Abs(order_price(order, side) - desired_price) < Cent
    /\ order.remaining_count = Num(desired_size)

\* keep_index with the loop of lines 137-141 letting a later match replace keep_order
keep_index_of_last_match(orders, side, desired_price, desired_size) ==
    LET hits == {i \in DOMAIN orders :
                    keep_test(orders[i], side, desired_price, desired_size)}
    IN IF hits = {} THEN 0 ELSE CHOOSE i \in hits : \A j \in hits : i >= j

\* handle_order_side: the index of keep_order in `orders`, 0 for None
keep_index(orders, side, desired_price, desired_size) ==
    LET hits == {i \in DOMAIN orders :
                    keep_test(orders[i], side, desired_price, desired_size)}
    IN IF hits = {} THEN 0 ELSE CHOOSE i \in hits : \A j \in hits : i <= j

\* cancel_indexes with line 139 missing `keep_order is None`: every match is spared
cancel_indexes_sparing_every_match(orders, side, desired_price, desired_size) ==
    {i \in DOMAIN orders : ~keep_test(orders[i], side, desired_price, desired_size)}

\* handle_order_side: the indexes whose order is passed to cancel_order, in order
cancel_indexes(orders, side, desired_price, desired_size) ==
    LET kept == keep_index(orders, side, desired_price, desired_size)
    IN {i \in DOMAIN orders : i # kept}

\* handle_order_side: the maker-only test of line 148
improves(action, desired_price, current_price) ==
    \/ action = "buy" /\ desired_price < current_price
    \/ action = "sell" /\ desired_price > current_price

\* handle_order_side: the place_order call of line 150, which passes
\* (action, trade_side, desired_price, desired_size) by position
place_call(action, side, desired_price, desired_size) ==
    place_order(action, side, desired_price, Num(desired_size))

\* cancel_calls leaving the loop of lines 137-144 after its first cancel_order
cancel_calls_stopping_after_first(action, orders, doomed, i) ==
    LET left == {j \in doomed : j >= i}
    IN IF left = {} THEN <<>>
       ELSE LET first == CHOOSE j \in left : \A n \in left : j <= n
            IN <<Event("cancel_order", action, <<orders[first].order_id>>)>>

RECURSIVE cancel_calls(_, _, _, _)
\* handle_order_side: the cancel_order calls of the loop of lines 137-144, from the
\* i-th order on
cancel_calls(action, orders, doomed, i) ==
    IF i > Len(orders) THEN <<>>
    ELSE (IF i \in doomed
          THEN <<Event("cancel_order", action, <<orders[i].order_id>>)>>
          ELSE <<>>) \o cancel_calls(action, orders, doomed, i + 1)

\* handle_order_side with the placement of lines 148-153 inside the loop of line
\* 137, once per order of the list
handle_order_side_placing_in_loop(action, side, orders, desired_price, desired_size, price_result) ==
    LET kept == keep_index(orders, side, desired_price, desired_size)
        doomed == cancel_indexes(orders, side, desired_price, desired_size)
        place == Event("place_order", action,
                       <<desired_price, desired_size,
                         place_call(action, side, desired_price, desired_size)>>)
    IN cancel_calls(action, orders, doomed, 1)
       \o <<Event("get_price", action, price_result)>>
       \o IF /\ price_result # <<>>
             /\ kept = 0
             /\ improves(action, desired_price, price_result[1])
          THEN [i \in 1..Len(orders) |-> place]
          ELSE <<>>

\* handle_order_side with line 147 missing: it places also when an order is kept
handle_order_side_placing_beside_kept(action, side, orders, desired_price, desired_size, price_result) ==
    LET doomed == cancel_indexes(orders, side, desired_price, desired_size)
    IN cancel_calls(action, orders, doomed, 1)
       \o <<Event("get_price", action, price_result)>>
       \o IF /\ price_result # <<>>
             /\ improves(action, desired_price, price_result[1])
          THEN <<Event("place_order", action,
                       <<desired_price, desired_size,
                         place_call(action, side, desired_price, desired_size)>>)>>
          ELSE <<>>

\* handle_order_side with line 148 comparing against the mid of the quote (run's
\* mid_price) instead of the price fetched at line 146
handle_order_side_guarded_by_quote_mid(action, side, orders, desired_price, desired_size, price_result) ==
    LET kept == keep_index(orders, side, desired_price, desired_size)
        doomed == cancel_indexes(orders, side, desired_price, desired_size)
    IN cancel_calls(action, orders, doomed, 1)
       \o <<Event("get_price", action, price_result)>>
       \o IF /\ price_result # <<>>
             /\ kept = 0
             /\ improves(action, desired_price, mid_price)
          THEN <<Event("place_order", action,
                       <<desired_price, desired_size,
                         place_call(action, side, desired_price, desired_size)>>)>>
          ELSE <<>>

\* handle_order_side(action, orders, desired_price, desired_size): the gateway
\* calls it issues, in order, when its get_price call gives price_result
handle_order_side(action, side, orders, desired_price, desired_size, price_result) ==
    LET kept == keep_index(orders, side, desired_price, desired_size)
        doomed == cancel_indexes(orders, side, desired_price, desired_size)
    IN cancel_calls(action, orders, doomed, 1)
       \o <<Event("get_price", action, price_result)>>
       \o IF /\ price_result # <<>>
             /\ kept = 0
             /\ improves(action, desired_price, price_result[1])
          THEN <<Event("place_order", action,
                       <<desired_price, desired_size,
                         place_call(action, side, desired_price, desired_size)>>)>>
          ELSE <<>>

----------------------------------------------------------------------------
(* The environment: the market, the account and the clock *)

MaxClock == 4       \* the clock is not followed past this many seconds

MaxVenue == 3       \* the venue holds at most this many open orders of the account

Dt == 1             \* run(dt): the sleep between two ticks, in seconds

MaxPosition == 4    \* self.max_position of the strategy under the loop

\* the quotes the market may show, in cents
Markets ==
    { [yes_bid |-> 49, yes_ask |-> 51, no_bid |-> 49, no_ask |-> 51],
      [yes_bid |-> 49, yes_ask |-> 52, no_bid |-> 48, no_ask |-> 51] }

\* the positions get_position may report
Positions == {0, 2}

\* an open order as get_orders lists it
Order(id, ticker, side, action, cents, count) ==
    [order_id |-> id, ticker |-> ticker, side |-> side, action |-> action,
     yes_price |-> IF side = "yes" THEN cents ELSE CentsPerUnit - cents,
     no_price |-> IF side = "no" THEN cents ELSE CentsPerUnit - cents,
     remaining_count |-> Num(count)]

\* the orders the account may hold when run() starts
InitialVenues(side) ==
    { <<>>,
      <<Order(1, market_ticker, side, "buy", 49, MaxPosition)>>,
      <<Order(1, market_ticker, side, "buy", 49, MaxPosition),
        Order(2, market_ticker, side, "buy", 50, MaxPosition),
        Order(3, market_ticker, side, "sell", 51, 1)>>,
      <<Order(1, "OTHER", side, "buy", 30, 1),
        Order(2, market_ticker, side, "sell", 51, MaxPosition)>>,
      <<Order(1, market_ticker, IF side = "yes" THEN "no" ELSE "yes", "buy", 49, 1),
        Order(2, market_ticker, side, "buy", 48, MaxPosition)>> }

\* what a get_price call may give: <<mid of `side`>>, or <<>> when it fails
PriceResults(side) ==
    {<<>>} \cup {<<get_price(market, up)[side]>> : market \in Markets, up \in BOOLEAN}

----------------------------------------------------------------------------
(* StrategyLoop: run(dt) *)

Init ==
    /\ trade_side \in {"yes", "no"}
    /\ max_position = MaxPosition
    /\ position_limit_buffer = default_position_limit_buffer
    /\ pc = "test"
    /\ clock = 0
    /\ fault = "none"
    /\ current_time = 0
    /\ mid_price = 0
    /\ inventory = 0
    /\ inventory_is_list = FALSE
    /\ bid_price = 0
    /\ ask_price = 0
    /\ buy_size = 0
    /\ sell_size = 0
    /\ buy_orders = <<>>
    /\ sell_orders = <<>>
    /\ venue \in InitialVenues(trade_side)
    /\ next_id = 4
    /\ calls = <<>>

\* the clock moves on; run() reads it at lines 41 and 42 only
ClockAdvance ==
    /\ pc \in {"test", "read_clock"}
    /\ clock < MaxClock
    /\ clock' = clock + 1
    /\ UNCHANGED <<trade_side, max_position, position_limit_buffer, pc, fault,
                   current_time, mid_price, inventory, inventory_is_list,
                   bid_price, ask_price, buy_size, sell_size, buy_orders,
                   sell_orders, venue, next_id, calls>>

\* line 41: while time.time() - start_time < self.T
LoopTest ==
    /\ pc = "test"
    /\ pc' = IF clock < T THEN "read_clock" ELSE "done"
    /\ UNCHANGED <<trade_side, max_position, position_limit_buffer, clock, fault,
                   current_time, mid_price, inventory, inventory_is_list,
                   bid_price, ask_price, buy_size, sell_size, buy_orders,
                   sell_orders, venue, next_id, calls>>

\* ReadClock with lines 45-46 moved after the quote: run() goes from the clock
\* read straight to get_position
ReadClock_skipping_get_price ==
    /\ pc = "read_clock"
    /\ current_time' = clock
    /\ pc' = "get_position"
    /\ UNCHANGED <<trade_side, max_position, position_limit_buffer, clock, fault,
                   calls, mid_price, inventory, inventory_is_list, bid_price, ask_price,
                   buy_size, sell_size, buy_orders, sell_orders, venue, next_id>>

\* line 42: current_time = time.time() - start_time; a new tick begins
ReadClock ==
    /\ pc = "read_clock"
    /\ current_time' = clock
    /\ pc' = "get_price"
    /\ UNCHANGED <<trade_side, max_position, position_limit_buffer, clock, fault,
                   calls, mid_price, inventory, inventory_is_list, bid_price, ask_price,
                   buy_size, sell_size, buy_orders, sell_orders, venue, next_id>>

\* lines 45-46: mid_prices = self.api.get_price(); mid_price = mid_prices[side].
\* When the request fails, get_price's handler names the undefined `ticker`
\* (kalshi_api.py line 237) and the NameError leaves run().
GetPrice ==
    /\ pc = "get_price"
    /\ \/ \E result \in PriceResults(trade_side) \ {<<>>} :
            /\ mid_price' = result[1]
            /\ calls' = Append(calls, Event("get_price", "run", result))
            /\ pc' = "get_position"
            /\ fault' = fault
       \/ /\ mid_price' = mid_price
          /\ calls' = Append(calls, [Event("get_price", "run", <<>>)
                                        EXCEPT !.ok = FALSE])
          /\ pc' = "crashed"
          /\ fault' = "NameError"
    /\ UNCHANGED <<trade_side, max_position, position_limit_buffer, clock,
                   current_time, inventory, inventory_is_list, bid_price,
                   ask_price, buy_size, sell_size, buy_orders, sell_orders,
                   venue, next_id>>

\* line 47: inventory = self.api.get_position(), the position or [] on failure
GetPosition ==
    /\ pc = "get_position"
    /\ \/ \E p \in Positions :
            /\ inventory' = p
            /\ inventory_is_list' = FALSE
            /\ calls' = Append(calls, Event("get_position", "run", <<p>>))
       \/ /\ inventory' = 0
          /\ inventory_is_list' = TRUE
          /\ calls' = Append(calls, [Event("get_position", "run", <<>>)
                                        EXCEPT !.ok = FALSE])
    /\ pc' = "compute"
    /\ UNCHANGED <<trade_side, max_position, position_limit_buffer, clock, fault,
                   current_time, mid_price, bid_price, ask_price, buy_size,
                   sell_size, buy_orders, sell_orders, venue, next_id>>

\* lines 50-55: the quote.  [] / max_position is a TypeError that leaves run().
Compute ==
    /\ pc = "compute"
    /\ IF inventory_is_list
       THEN /\ pc' = "crashed"
            /\ fault' = "TypeError"
            /\ UNCHANGED <<bid_price, ask_price, buy_size, sell_size, calls>>
       ELSE LET quotes == calculate_asymmetric_quotes(max_position, mid_price,
                                                      inventory, current_time)
                sizes == calculate_order_sizes(max_position,
                                               position_limit_buffer, inventory)
            IN /\ bid_price' = quotes[1]
               /\ ask_price' = quotes[2]
               /\ buy_size' = sizes[1]
               /\ sell_size' = sizes[2]
               /\ calls' = Append(calls, Event("quote", "run",
                                   <<mid_price, inventory, current_time>>))
               /\ pc' = "manage"
               /\ fault' = fault
    /\ UNCHANGED <<trade_side, max_position, position_limit_buffer, clock,
                   current_time, mid_price, inventory, inventory_is_list,
                   buy_orders, sell_orders, venue, next_id>>

\* lines 113-127: current_orders = self.api.get_orders(), split by action
ManageOrders ==
    /\ pc = "manage"
    /\ \E ok \in BOOLEAN :
          LET current_orders == get_orders(venue, ok)
          IN /\ buy_orders' = select_orders(current_orders, trade_side, "buy")
             /\ sell_orders' = select_orders(current_orders, trade_side, "sell")
             /\ calls' = Append(calls, [Event("get_orders", "run", current_orders)
                                           EXCEPT !.ok = ok])
    /\ pc' = "buy"
    /\ UNCHANGED <<trade_side, max_position, position_limit_buffer, clock, fault,
                   current_time, mid_price, inventory, inventory_is_list,
                   bid_price, ask_price, buy_size, sell_size, venue, next_id>>

RECURSIVE opened(_, _, _)
\* the venue's book after it accepted the payloads of `places`, ids from `id` on
opened(book, places, id) ==
    IF places = <<>> THEN book
    ELSE opened(Append(book, venue_order(id, Head(places).detail[3])),
                Tail(places), id + 1)

\* one call of handle_order_side, lines 135-155, with the venue's answers:
\* the cancels in `failed` are refused, the order placed is accepted or not
HandleSide(action, orders, desired_price, desired_size, next_pc) ==
    \E price_result \in PriceResults(trade_side), accepted \in BOOLEAN :
      LET plan == handle_order_side(action, trade_side, orders, desired_price,
                                    desired_size, price_result)
          asked == {plan[i].detail[1] :
                        i \in {j \in DOMAIN plan : plan[j].op = "cancel_order"}}
          places == SelectSeq(plan, LAMBDA e : e.op = "place_order")
      IN \E failed \in SUBSET asked :
           LET book == without(venue, asked \ failed)
               room == Len(book) + Len(places) <= MaxVenue
               answer(e) ==
                   IF e.op = "cancel_order" THEN e.detail[1] \notin failed
                   ELSE IF e.op = "place_order" THEN accepted /\ room
                   ELSE price_result # <<>>
           IN /\ venue' = IF accepted /\ room THEN opened(book, places, next_id)
                          ELSE book
              /\ next_id' = IF accepted /\ room THEN next_id + Len(places)
                            ELSE next_id
              /\ calls' = calls \o [i \in DOMAIN plan |->
                                       [plan[i] EXCEPT !.ok = answer(plan[i])]]
              /\ pc' = IF price_result = <<>> THEN "crashed" ELSE next_pc
              /\ fault' = IF price_result = <<>> THEN "NameError" ELSE fault

\* line 130: self.handle_order_side('buy', buy_orders, bid_price, buy_size)
HandleBuy ==
    /\ pc = "buy"
    /\ HandleSide("buy", buy_orders, bid_price, buy_size, "sell")
    /\ UNCHANGED <<trade_side, max_position, position_limit_buffer, clock,
                   current_time, mid_price, inventory, inventory_is_list,
                   bid_price, ask_price, buy_size, sell_size, buy_orders,
                   sell_orders>>

\* line 133: self.handle_order_side('sell', sell_orders, ask_price, sell_size)
HandleSell ==
    /\ pc = "sell"
    /\ HandleSide("sell", sell_orders, ask_price, sell_size, "sleep")
    /\ UNCHANGED <<trade_side, max_position, position_limit_buffer, clock,
                   current_time, mid_price, inventory, inventory_is_list,
                   bid_price, ask_price, buy_size, sell_size, buy_orders,
                   sell_orders>>

\* line 59: time.sleep(dt).  The tick is over: its locals are dead (the next tick
\* assigns each before reading it), so the model clears them here.
Sleep ==
    /\ pc = "sleep"
    /\ clock' = clock + Dt
    /\ pc' = "test"
    /\ current_time' = 0
    /\ mid_price' = 0
    /\ inventory' = 0
    /\ bid_price' = 0
    /\ ask_price' = 0
    /\ buy_size' = 0
    /\ sell_size' = 0
    /\ buy_orders' = <<>>
    /\ sell_orders' = <<>>
    /\ calls' = <<>>
    /\ UNCHANGED <<trade_side, max_position, position_limit_buffer, fault,
                   inventory_is_list, venue, next_id>>

Next ==
    \/ ClockAdvance
    \/ LoopTest
    \/ ReadClock
    \/ GetPrice
    \/ GetPosition
    \/ Compute
    \/ ManageOrders
    \/ HandleBuy
    \/ HandleSell
    \/ Sleep

Spec == Init /\ [][Next]_vars

----------------------------------------------------------------------------
(* The reconciliation pass and the loop: what the tick's calls show *)

Actions == {"buy", "sell"}

\* the arguments manage_orders gives handle_order_side for `action`
desired_price_of(action) == IF action = "buy" THEN bid_price ELSE ask_price

desired_size_of(action) == IF action = "buy" THEN buy_size ELSE sell_size

orders_of(action) == IF action = "buy" THEN buy_orders ELSE sell_orders

\* the positions in `calls` of the calls `op` made by handle_order_side(action, ...)
CallsOf(op, action) ==
    {i \in DOMAIN calls : calls[i].op = op /\ calls[i].action = action}

\* handle_order_side(action, ...) has run in this tick: its one get_price is logged
Handled(action) == CallsOf("get_price", action) # {}

\* the pass has completed: both sides are handled and run() is at its sleep
PassCompleted == pc = "sleep"

\* the ids of the orders get_orders listed to this pass
ListedIds ==
    UNION {{o.order_id : o \in {calls[i].detail[j] : j \in DOMAIN calls[i].detail}} :
              i \in {n \in DOMAIN calls : calls[n].op = "get_orders"}}

\* the ids of the orders this pass placed and the venue accepted
PlacedIds ==
    LET accepted == {i \in DOMAIN calls : calls[i].op = "place_order" /\ calls[i].ok}
    IN (next_id - Cardinality(accepted))..(next_id - 1)

\* the venue's open orders of `action` on trade_side, listed to the pass or placed
\* by it, that satisfy the keep predicate
Keepers(action) ==
    {i \in DOMAIN venue :
        /\ venue[i].order_id \in ListedIds \cup PlacedIds
        /\ venue[i].side = trade_side
        /\ venue[i].action = action
        /\ keep_test(venue[i], trade_side, desired_price_of(action),
                     desired_size_of(action))}

\* C1: one reconciliation pass issues at most one place_order for the buy side and
\* at most one for the sell side, whatever get_orders returned and however the
\* gateway calls ended.
C1_AtMostOnePlacePerSide ==
    \A action \in Actions :
        Cardinality({i \in DOMAIN calls :
                        /\ calls[i].op = "place_order"
                        /\ calls[i].detail[3].action = action}) <= 1

\* C1 witness: a completed pass that cancelled two orders, one cancel refused,
\* and placed on both sides.
C1_Witness ==
    /\ PassCompleted
    /\ CallsOf("place_order", "buy") # {}
    /\ CallsOf("place_order", "sell") # {}
    /\ \E i \in CallsOf("cancel_order", "buy") : ~calls[i].ok
    /\ Cardinality(CallsOf("cancel_order", "buy")) = 2

C3_MatchingOrderLeftAlone ==
    \A action \in Actions :
        (/\ Handled(action)
         /\ Len(orders_of(action)) = 1
         /\ keep_test(orders_of(action)[1], trade_side,
                      desired_price_of(action), desired_size_of(action)))
            => /\ CallsOf("cancel_order", action) = {}
               /\ CallsOf("place_order", action) = {}

\* C3 witness: the single buy order matched, the price fetched at line 146 was
\* above the desired bid (a placement would have passed the guard), and the
\* pass went on to its end.
C3_Witness ==
    /\ PassCompleted
    /\ Len(buy_orders) = 1
    /\ keep_test(buy_orders[1], trade_side, bid_price, buy_size)
    /\ \E i \in CallsOf("get_price", "buy") :
            calls[i].ok /\ bid_price < calls[i].detail[1]
    /\ \E i \in DOMAIN venue : venue[i] = buy_orders[1]

\* C4: every place_order of a pass follows the get_price call of the same
\* handle_order_side call, which follows its cancels; a buy is placed at a price
\* strictly below the mid that call returned, a sell strictly above it; and when
\* the comparison fails, nothing is placed on that side in the tick.
C4_MakerOnlyGuard ==
    \A action \in Actions :
        Handled(action) =>
            \A g \in CallsOf("get_price", action) :
                /\ \A c \in CallsOf("cancel_order", action) : c < g
                /\ \A p \in CallsOf("place_order", action) :
                      /\ g < p
                      /\ calls[g].ok
                      /\ calls[p].detail[1] = desired_price_of(action)
                      /\ calls[p].detail[3].action = action
                      /\ IF action = "buy"
                         THEN calls[p].detail[1] < calls[g].detail[1]
                         ELSE calls[p].detail[1] > calls[g].detail[1]
                /\ (calls[g].ok /\ ~improves(action, desired_price_of(action),
                                             calls[g].detail[1]))
                      => CallsOf("place_order", action) = {}

\* C4 witness: the bid was below the mid of the quote but not below the mid
\* fetched after the cancels, so no buy was placed; the sell was placed.
C4_Witness ==
    /\ PassCompleted
    /\ buy_orders # <<>>
    /\ keep_index(buy_orders, trade_side, bid_price, buy_size) = 0
    /\ bid_price < mid_price
    /\ \E g \in CallsOf("get_price", "buy") :
            calls[g].ok /\ ~(bid_price < calls[g].detail[1])
    /\ CallsOf("place_order", "buy") = {}
    /\ CallsOf("place_order", "sell") # {}

\* C5: a place_order the reconciler issues with price p and quantity n posts a
\* payload with its action, type 'limit', count = n and the price field of its
\* side equal to p in whole cents.
C5_PayloadCarriesPriceAndCount ==
    \A i \in DOMAIN calls :
        calls[i].op = "place_order" =>
            LET p == calls[i].detail[1]
                n == calls[i].detail[2]
                payload == calls[i].detail[3]
            IN /\ payload.action = calls[i].action
               /\ payload.type = "limit"
               /\ payload.side = trade_side
               /\ payload.count = Num(n)
               /\ payload_price(payload) = TruncDiv(p * CentsPerUnit, Scale)

\* C6: whatever gateway calls fail, no fault leaves run(): the loop is never
\* stopped by an exception.
C6_NoFaultLeavesRun == pc # "crashed" /\ fault = "none"

\* C10: the elapsed time t given to the quote computation satisfies 0 <= t <= T.
C10_ElapsedTimeWithinHorizon ==
    \A i \in DOMAIN calls :
        calls[i].op = "quote" =>
            0 <= calls[i].detail[3] /\ calls[i].detail[3] <= T

\* a cancel_order or place_order call of handle_order_side(action, ...) failed
FailedToPlaceOrCancel(action) ==
    \E i \in CallsOf("cancel_order", action) \cup CallsOf("place_order", action) :
        ~calls[i].ok

\* C11: when a cancel_order or place_order call of a side fails, the pass still
\* issues the cancel for every other non-kept order of that side, the sell side
\* is still handled after the buy side, and no fault leaves the pass: with the
\* price of line 146 fetched, run() goes on to the sell side and to its sleep.
C11_FailuresDoNotAbortTick ==
    /\ \A action \in Actions :
          (Handled(action) /\ FailedToPlaceOrCancel(action)) =>
             /\ \A i \in DOMAIN orders_of(action) :
                   i # keep_index(orders_of(action), trade_side,
                                  desired_price_of(action), desired_size_of(action))
                      => \E c \in CallsOf("cancel_order", action) :
                            calls[c].detail[1] = orders_of(action)[i].order_id
             /\ (\A g \in CallsOf("get_price", action) : calls[g].ok) =>
                   IF action = "buy"
                   THEN pc = "sell" \/ Handled("sell")
                   ELSE pc = "sleep" /\ fault = "none"
    /\ Handled("sell") =>
          /\ Handled("buy")
          /\ \A b \in CallsOf("get_price", "buy"), s \in DOMAIN calls :
                calls[s].action = "sell" => b < s

\* C11 witness: of two buy orders to cancel the first was refused, the buy order
\* placed was refused too, the sell side was handled and run() is at its sleep.
C11_Witness ==
    /\ PassCompleted
    /\ Cardinality(CallsOf("cancel_order", "buy")) = 2
    /\ \E c \in CallsOf("cancel_order", "buy") :
          /\ ~calls[c].ok
          /\ \E d \in CallsOf("cancel_order", "buy") : c < d
    /\ \E p \in CallsOf("place_order", "buy") : ~calls[p].ok
    /\ Handled("sell")

\* every gateway call of the tick so far returned to run(): no get_price request
\* failed, the one gateway failure that raises (kalshi_api.py line 237) instead
\* of returning a sentinel
EveryGatewayCallReturned ==
    \A i \in DOMAIN calls : calls[i].op = "get_price" => calls[i].ok

\* C12: provided every gateway call returns, run() leaves its loop only through
\* the test of line 41, with elapsed time >= T: it is never stopped before that,
\* and it is at its end (line 61) only when the elapsed time is >= T.
C12_LoopEndsOnlyAtHorizon ==
    EveryGatewayCallReturned =>
        /\ pc # "crashed"
        /\ pc = "done" => clock >= T

\* the order at position i of the list given to handle_order_side(action, ...)
\* satisfies the keep predicate and no order before it does
EarliestMatch(action, i) ==
    /\ keep_test(orders_of(action)[i], trade_side, desired_price_of(action),
                 desired_size_of(action))
    /\ \A j \in 1..(i - 1) :
          ~keep_test(orders_of(action)[j], trade_side, desired_price_of(action),
                     desired_size_of(action))

\* the cancel_order calls handle_order_side(action, ...) issued for the order at
\* position i of its list
CancelsOf(action, i) ==
    {c \in CallsOf("cancel_order", action) :
        calls[c].detail[1] = orders_of(action)[i].order_id}

\* C14: in one pass over a side's list the order kept is the earliest one that
\* satisfies the keep predicate: no cancel_order is issued for it, and exactly
\* one is issued for every other order of the list, later matches included.
C14_EarliestMatchKeptOthersCancelledOnce ==
    \A action \in Actions :
        Handled(action) =>
            \A i \in DOMAIN orders_of(action) :
                Cardinality(CancelsOf(action, i))
                    = IF EarliestMatch(action, i) THEN 0 ELSE 1

\* C14 witness: two orders of the buy list satisfy the keep predicate; the first
\* is kept and the second is cancelled.
C14_Witness ==
    /\ Handled("buy")
    /\ \E i, j \in DOMAIN buy_orders :
          /\ i < j
          /\ EarliestMatch("buy", i)
          /\ keep_test(buy_orders[j], trade_side, bid_price, buy_size)
          /\ CancelsOf("buy", i) = {}
          /\ Cardinality(CancelsOf("buy", j)) = 1

\* C15: in a tick whose get_orders failed and returned its [] sentinel, the
\* reconciler issues no place_order.
C15_NoPlaceAfterFailedGetOrders ==
    (\E g \in DOMAIN calls : calls[g].op = "get_orders" /\ ~calls[g].ok) =>
        \A i \in DOMAIN calls : calls[i].op # "place_order"

\* the calls of the current tick are in run()'s order: the quote comes after a
\* get_price that returned prices and a get_position, no read of line 45 or 47
\* comes after it, and every cancel_order and place_order comes after the quote
TickInOrder ==
    /\ \A q \in DOMAIN calls :
          calls[q].op = "quote" =>
             /\ \E i \in 1..(q - 1) :
                   calls[i].op = "get_price" /\ calls[i].action = "run" /\ calls[i].ok
             /\ \E i \in 1..(q - 1) : calls[i].op = "get_position"
             /\ \A i \in DOMAIN calls :
                   (calls[i].action = "run"
                      /\ calls[i].op \in {"get_price", "get_position"}) => i < q
    /\ \A c \in DOMAIN calls :
          calls[c].op \in {"cancel_order", "place_order"} =>
             \E q \in 1..(c - 1) : calls[q].op = "quote"

\* a step respects the ticks' sequence: a tick's calls are closed only by the
\* sleep of line 59 completing, and the get_price of line 45 is issued only as
\* the first call of a tick, after that
TicksInSequence ==
    /\ (calls # <<>> /\ calls' = <<>>) =>
          pc = "sleep" /\ pc' = "test" /\ clock' = clock + Dt
    /\ (calls = <<>> /\ calls' # <<>>) =>
          /\ pc = "get_price"
          /\ calls'[1].op = "get_price" /\ calls'[1].action = "run"
    /\ (calls # <<>> /\ calls' # <<>>) =>
          /\ Len(calls') >= Len(calls)
          /\ \A i \in DOMAIN calls : calls'[i] = calls[i]
          /\ \A i \in (Len(calls) + 1)..Len(calls') :
                ~(calls'[i].op = "get_price" /\ calls'[i].action = "run")

\* C17: within every tick get_price and get_position complete before the quote
\* is computed and the quote is computed before any cancel_order or place_order
\* is issued; the first gateway call of the next tick is issued only after the
\* previous tick's sleep has completed.
C17_FetchComputeReconcileInOrder ==
    []TickInOrder /\ [][TicksInSequence]_vars

\* C17 witness: a later tick is at its sleep after it listed an order that an
\* earlier tick had placed, and issued a cancel_order and a place_order of its own.
C17_Witness ==
    /\ PassCompleted
    /\ \E i \in DOMAIN calls : calls[i].op = "cancel_order"
    /\ \E i \in DOMAIN calls : calls[i].op = "place_order"
    /\ \E id \in ListedIds : id >= 4 /\ id \notin PlacedIds

\* the orders get_orders listed to this pass
Listed ==
    UNION {{calls[g].detail[j] : j \in DOMAIN calls[g].detail} :
              g \in {n \in DOMAIN calls : calls[n].op = "get_orders"}}

\* C19: an order passed to cancel_order belongs to the market the gateway was
\* configured with; a listed order of another ticker is never cancelled.
C19_CancelsOnlyConfiguredMarket ==
    \A c \in DOMAIN calls :
        calls[c].op = "cancel_order" =>
            \A o \in Listed :
                o.order_id = calls[c].detail[1] => o.ticker = market_ticker

\* order `o` is what the venue opened for the place_order call of line 150 made
\* with the desired price and size `action` has in the current tick, and it is
\* still unfilled
OpenedForCurrentQuote(o, action) ==
    o = venue_order(o.order_id,
                    place_call(action, trade_side, desired_price_of(action),
                               desired_size_of(action)))

\* C18: an order an earlier tick placed for the desired price and size the side
\* still has, and that get_orders lists unfilled to the pass, is kept: the pass
\* issues no cancel_order for it and no place_order on that side.
C18_PlacedOrderKeptWhileQuoteUnchanged ==
    \A action \in Actions :
        Handled(action) =>
            \A i \in DOMAIN orders_of(action) :
                (/\ OpenedForCurrentQuote(orders_of(action)[i], action)
                 /\ orders_of(action)[i].order_id \notin PlacedIds
                 /\ \A j \in DOMAIN orders_of(action) \ {i} :
                       ~OpenedForCurrentQuote(orders_of(action)[j], action))
                    => /\ CancelsOf(action, i) = {}
                       /\ CallsOf("place_order", action) = {}

----------------------------------------------------------------------------
(* calculate_order_sizes on its own: the inputs are drawn, the function is applied *)

ScenarioMaxPosition == 100

\* the values of position_limit_buffer tried: 0, 0.05, 0.1, 0.5, 1, 2
Buffers ==
    {0, Scale \div 20, default_position_limit_buffer, Scale \div 2, Scale, 2 * Scale}

InitSizes ==
    /\ trade_side = "yes"
    /\ max_position \in (1..MaxPosition) \cup {ScenarioMaxPosition}
    /\ position_limit_buffer \in Buffers
    /\ inventory \in (-(max_position + 1))..(max_position + 1)
    /\ pc = "order_sizes"
    /\ clock = 0
    /\ fault = "none"
    /\ current_time = 0
    /\ mid_price = 0
    /\ inventory_is_list = FALSE
    /\ bid_price = 0
    /\ ask_price = 0
    /\ buy_size = 0
    /\ sell_size = 0
    /\ buy_orders = <<>>
    /\ sell_orders = <<>>
    /\ venue = <<>>
    /\ next_id = 1
    /\ calls = <<>>

\* line 52: buy_size, sell_size = self.calculate_order_sizes(inventory)
OrderSizes ==
    /\ pc = "order_sizes"
    /\ LET sizes == calculate_order_sizes(max_position, position_limit_buffer,
                                          inventory)
       IN /\ buy_size' = sizes[1]
          /\ sell_size' = sizes[2]
    /\ pc' = "sized"
    /\ UNCHANGED <<trade_side, max_position, position_limit_buffer, clock, fault,
                   current_time, mid_price, inventory, inventory_is_list,
                   bid_price, ask_price, buy_orders, sell_orders, venue, next_id,
                   calls>>

NextSizes == OrderSizes

SpecSizes == InitSizes /\ [][NextSizes]_vars

\* C7: for every integer inventory in [-max_position, max_position], with
\* max_position >= 1 and any position_limit_buffer >= 0, calculate_order_sizes
\* returns buy_size and sell_size both in [1, max_position].
C7_SizesInRange ==
    (pc = "sized" /\ Abs(inventory) <= max_position)
        => /\ 1 <= buy_size /\ buy_size <= max_position
           /\ 1 <= sell_size /\ sell_size <= max_position

\* C7 witness: the buffer alone would give 0 (floored to 1), and a buffer larger
\* than the whole position is capped by the remaining capacity.
C7_Witness ==
    /\ pc = "sized"
    /\ max_position = MaxPosition
    /\ inventory = 1
    /\ position_limit_buffer = 2 * Scale
    /\ buy_size = max_position - 1
    /\ sell_size = max_position

\* C8 as stated: with inventory = 0, max_position = 100 and the default
\* position_limit_buffer, buy_size == sell_size == max_position.
C8_BothSizesMaxPosition ==
    (/\ pc = "sized"
     /\ inventory = 0
     /\ max_position = ScenarioMaxPosition
     /\ position_limit_buffer = default_position_limit_buffer)
        => buy_size = max_position /\ sell_size = max_position

\* C8 amended: with inventory = 0, max_position = 100 and the default
\* position_limit_buffer, buy_size is max_position and sell_size is the buffer,
\* one tenth of max_position (10).
C8_BuyMaxSellBuffer ==
    (/\ pc = "sized"
     /\ inventory = 0
     /\ max_position = ScenarioMaxPosition
     /\ position_limit_buffer = default_position_limit_buffer)
        => buy_size = max_position /\ sell_size = max_position \div 10

\* C8 witness: the scenario's sizes have been computed.
C8_Witness ==
    /\ pc = "sized"
    /\ inventory = 0
    /\ max_position = ScenarioMaxPosition
    /\ position_limit_buffer = default_position_limit_buffer
    /\ buy_size = ScenarioMaxPosition
    /\ sell_size < buy_size

\* the size quoted on the side that grows |inventory|
growing_side_size == IF inventory > 0 THEN buy_size ELSE sell_size

\* C20 as stated: for every inventory in [-max_position, max_position] the size
\* on the side that grows |inventory| is at most max_position - |inventory|.
C20_GrowingSideWithinRemainingCapacity ==
    (pc = "sized" /\ Abs(inventory) <= max_position)
        => growing_side_size <= max_position - Abs(inventory)

\* C20 amended: the size on the side that grows |inventory| is at most
\* max(1, max_position - |inventory|): within the remaining capacity while
\* |inventory| < max_position, and 1 at inventory = +/-max_position.
C20_GrowingSideWithinCapacityOrOne ==
    (pc = "sized" /\ Abs(inventory) <= max_position)
        => /\ growing_side_size <= Max(1, max_position - Abs(inventory))
           /\ Abs(inventory) = max_position => growing_side_size = 1

\* C20 witness: at inventory = max_position the buffer is above 1, the remaining
\* capacity is 0 and the buy size is 1.
C20_Witness ==
    /\ pc = "sized"
    /\ inventory = max_position
    /\ TruncDiv(max_position * position_limit_buffer, Scale) > 1
    /\ max_position - Abs(inventory) = 0
    /\ buy_size = 1

----------------------------------------------------------------------------
(* calculate_asymmetric_quotes on its own *)

\* the mid prices tried: 0, 0.01, 0.50, 0.99, 1
Mids == {0, Cent, 50 * Cent, 99 * Cent, Scale}

InitQuotes ==
    /\ trade_side = "yes"
    /\ max_position \in 1..MaxPosition
    /\ position_limit_buffer = default_position_limit_buffer
    /\ inventory \in (-(max_position + 1))..(max_position + 1)
    /\ mid_price \in Mids
    /\ current_time \in 0..(T + 1)
    /\ pc = "asymmetric_quotes"
    /\ clock = 0
    /\ fault = "none"
    /\ inventory_is_list = FALSE
    /\ bid_price = 0
    /\ ask_price = 0
    /\ buy_size = 0
    /\ sell_size = 0
    /\ buy_orders = <<>>
    /\ sell_orders = <<>>
    /\ venue = <<>>
    /\ next_id = 1
    /\ calls = <<>>

\* line 51: bid_price, ask_price = self.calculate_asymmetric_quotes(...)
AsymmetricQuotes ==
    /\ pc = "asymmetric_quotes"
    /\ LET quotes == calculate_asymmetric_quotes(max_position, mid_price,
                                                 inventory, current_time)
           \* the locals of lines 65-75: base_spread, bid_spread, ask_spread
           base_spread == calculate_optimal_spread(max_position, current_time,
                                                   inventory)
           hs == half_spreads(max_position, inventory, current_time)
       IN /\ bid_price' = quotes[1]
          /\ ask_price' = quotes[2]
          /\ calls' = <<Event("spreads", "run", <<base_spread, hs[1], hs[2]>>)>>
    /\ pc' = "quoted"
    /\ UNCHANGED <<trade_side, max_position, position_limit_buffer, clock, fault,
                   current_time, mid_price, inventory, inventory_is_list,
                   buy_size, sell_size, buy_orders, sell_orders, venue, next_id>>

NextQuotes == AsymmetricQuotes

SpecQuotes == InitQuotes /\ [][NextQuotes]_vars

\* C9: for every mid in [0,1], every inventory and every t in [0,T],
\* calculate_asymmetric_quotes returns 0 <= bid <= mid <= ask <= 1.
C9_QuotesBracketMid ==
    (/\ pc = "quoted"
     /\ 0 <= mid_price /\ mid_price <= Scale
     /\ 0 <= current_time /\ current_time <= T)
        => /\ 0 <= bid_price /\ bid_price <= mid_price
           /\ mid_price <= ask_price /\ ask_price <= Scale

\* C9 witness: a short inventory pulls the reservation price so far down that
\* reservation_price + ask_spread is below mid, and the ask is lifted to mid.
C9_Witness ==
    /\ pc = "quoted"
    /\ current_time <= T
    /\ inventory < 0
    /\ calculate_reservation_price(max_position, mid_price, inventory, current_time)
         + half_spreads(max_position, inventory, current_time)[2] < mid_price
    /\ ask_price = mid_price

\* the spreads calculate_asymmetric_quotes computed: base_spread, the value
\* calculate_optimal_spread returned, and the two half-spreads
spreads_computed == calls[1].detail

\* C13: for every t in [0,T] and every inventory in [-max_position,
\* max_position], calculate_optimal_spread(t, inventory) >= min_spread.
C13_OptimalSpreadAtLeastMinSpread ==
    (/\ pc = "quoted"
     /\ 0 <= current_time /\ current_time <= T
     /\ Abs(inventory) <= max_position)
        => spreads_computed[1] >= min_spread

\* C13 witness: at inventory = +/-max_position the position scaling factor is 0
\* and the spread returned is min_spread itself.
C13_Witness ==
    /\ pc = "quoted"
    /\ current_time <= T
    /\ Abs(inventory) = max_position
    /\ Scale - TruncDiv(Num(inventory * inventory), max_position * max_position) = 0
    /\ spreads_computed[1] = min_spread

\* C16: with inventory > 0 the bid half-spread is >= the ask half-spread, with
\* inventory < 0 the ask half-spread is >= the bid half-spread, and for every
\* inventory in [-max_position, max_position] both are >= min_spread / 2.
C16_SkewFavoursReducingSide ==
    (pc = "quoted" /\ Abs(inventory) <= max_position) =>
        LET bid_spread == spreads_computed[2]
            ask_spread == spreads_computed[3]
        IN /\ inventory > 0 => bid_spread >= ask_spread
           /\ inventory < 0 => ask_spread >= bid_spread
           /\ bid_spread >= min_spread \div 2
           /\ ask_spread >= min_spread \div 2

\* C16 witness: a long inventory below the limit widens the bid half-spread and
\* the ask half-spread is held at its floor min_spread / 2.
C16_Witness ==
    /\ pc = "quoted"
    /\ 0 < inventory /\ inventory < max_position
    /\ spreads_computed[2] > spreads_computed[3]
    /\ spreads_computed[3] = min_spread \div 2
    /\ calculate_optimal_spread(max_position, current_time, inventory) \div 2
         - TruncDiv(calculate_optimal_spread(max_position, current_time, inventory)
                      * Abs(inventory) * 3, max_position) < min_spread \div 2

=============================================================================
